---- MODULE Spec2Model ----
(***************************************************************************)
(* Model of the csv-to-json-import ETL: the TMDB enrichment client         *)
(* (rate limiter, cache, FetchMovieData) shared by concurrent callers, and *)
(* the identifier mapper used by the processors.                           *)
(***************************************************************************)
EXTENDS Integers, Sequences, FiniteSets, TLC

(* ---------------------------- bounds ----------------------------------- *)
NumWorkers == 2
NumKeys == 2
MaxCalls == 2

Workers == 1..NumWorkers
Keys == 1..NumKeys

(* Capacity of the channel returned by time.Tick: the ticker keeps one     *)
(* pending tick and drops the ticks that find the buffer full.             *)
TickBuffer == 1

(* ---------------------------- state ------------------------------------ *)
VARIABLES
    cache,        \* TMDBClient.cache: key -> record, or NoRecord
    rateLimiter,  \* ticks buffered in the TMDBClient.rateLimiter channel
    readers,      \* callers holding cacheMutex.RLock
    writer,       \* caller holding cacheMutex.Lock, or 0
    pc,           \* each caller's position in FetchMovieData
    call,         \* each caller's current call (locals and what it did)
    log,          \* completed calls, in order of return
    periodAcq,    \* tokens received since the limiter's last tick
    stale,        \* the buffered tick has outlived a later tick (an idle interval)
    ncalls        \* calls begun so far

clientVars == <<cache, rateLimiter, readers, writer, pc, call, log, periodAcq, stale, ncalls>>

VARIABLES
    loaded,    \* the table read by LoadItemMap / LoadUserMap
    mapping,   \* IDMapper: key -> index, NoIdx when unmapped
    nextIdx,   \* IDMapper: the next unused index
    changed,   \* IDMapper: HasChanged()
    mlog       \* the GetOrCreate calls made so far: key, returned index, created?

mapperVars == <<loaded, mapping, nextIdx, changed, mlog>>

VARIABLES
    mmutex,    \* IDMapper's lock: the worker inside GetOrCreate, or 0
    mpc,       \* each worker's position in GetOrCreate
    mcall      \* each worker's current GetOrCreate call

concVars == <<mmutex, mpc, mcall>>

VARIABLES
    tagFrequency,  \* LoadUserTags: (movieId, normalized tag, userId) entries
    tagRowsKept,   \* the tag rows that passed LoadUserTags' filter so far
    userTags,      \* LoadUserTags' result: movieId -> ranked tags
    tagsDone       \* LoadUserTags has returned

tagVars == <<tagFrequency, tagRowsKept, userTags, tagsDone>>

VARIABLES
    minRelevance,  \* LoadGenomeScores' threshold
    scores,        \* LoadGenomeScores: movieId -> entries in the order kept
    genomeRead,    \* rows of genome-scores.csv read so far
    genomeScores,  \* LoadGenomeScores' result: movieId -> sorted entries
    genomeDone     \* LoadGenomeScores has returned

genomeVars == <<minRelevance, scores, genomeRead, genomeScores, genomeDone>>

VARIABLES
    accums,        \* LoadRatingStats: movieId -> running sum, count, last timestamp
    ratingRead,    \* rows of ratings.csv read so far
    ratingValid,   \* the same accumulators over the well-formed rows only
    ratingStats,   \* LoadRatingStats' result: movieId -> aggregate, or NoStats
    ratingDone     \* LoadRatingStats has returned

ratingVars == <<accums, ratingRead, ratingValid, ratingStats, ratingDone>>

VARIABLES
    reverseMap,    \* LoadSimilarities: iIdx -> movieId, 0 when unmapped
    similarities,  \* LoadSimilarities: source iIdx -> neighbors in the order met
    simRead,       \* rows of the similarity file read so far
    simLoaded,     \* LoadSimilarities has returned
    simDocs,       \* ProcessSimilarities' documents, by source iIdx
    simWritten     \* ProcessSimilarities has returned

simVars == <<reverseMap, similarities, simRead, simLoaded, simDocs, simWritten>>

VARIABLES
    titleRaw,      \* parseTitleAndYear's argument
    title,         \* its first result
    year,          \* its second result: a year, or no year (nil)
    titleParsed    \* parseTitleAndYear has returned

titleVars == <<titleRaw, title, year, titleParsed>>

VARIABLES
    fetchExternal, \* ProcessMovies: enrichment is enabled
    topGenomeTags, \* ProcessMovies: the most relevance entries a document takes
    asmPc,         \* ProcessMovies: reading rows, waiting for FetchMovieData, or done
    asmRead,       \* rows of movies.csv read so far
    asmDoc,        \* the document being assembled while FetchMovieData runs
    docs,          \* the documents written, in order
    fetchedCount,  \* ProcessMovies' fetchedCount
    errorCount     \* ProcessMovies' errorCount

asmVars == <<fetchExternal, topGenomeTags, asmPc, asmRead, asmDoc, docs, fetchedCount, errorCount>>

VARIABLES
    flags,         \* main: the process-* flags and update-mappings
    runPc,         \* main: the processor it is at, the end, or exit status 1
    completed,     \* main: the processors that have returned without error
    userMapper,    \* main: the IDMapper of the users (table, next index, changed)
    userLog,       \* the GetOrCreate calls made on userMapper so far
    usersLeft,     \* ProcessUsers: the userIds its loop has still to write
    saved          \* the tables written by SaveItemMap / SaveUserMap, in order

runVars == <<flags, runPc, completed, userMapper, userLog, usersLeft, saved>>

VARIABLES
    normRaw,       \* normalizeTag's argument
    normTag,       \* its result
    normDone       \* normalizeTag has returned

normVars == <<normRaw, normTag, normDone>>

VARIABLES
    requestsPerSecond  \* NewTMDBClient's argument, the flag tmdb-rate-limit

limiterVars == <<requestsPerSecond>>

(* Everything but the enrichment client and the mapper's table. *)
sideVars == <<concVars, tagVars, genomeVars, ratingVars, simVars, titleVars, asmVars, runVars,
              normVars, limiterVars>>

(* What each component leaves alone besides its own variables. *)
concFrame == <<tagVars, genomeVars, ratingVars, simVars, titleVars, asmVars, runVars, normVars, limiterVars>>
tagFrame == <<clientVars, mapperVars, concVars, genomeVars, ratingVars, simVars, titleVars, asmVars, runVars, normVars, limiterVars>>
genomeFrame == <<clientVars, mapperVars, concVars, tagVars, ratingVars, simVars, titleVars, asmVars, runVars, normVars, limiterVars>>
ratingFrame == <<clientVars, mapperVars, concVars, tagVars, genomeVars, simVars, titleVars, asmVars, runVars, normVars, limiterVars>>
simFrame == <<clientVars, mapperVars, concVars, tagVars, genomeVars, ratingVars, titleVars, asmVars, runVars, normVars, limiterVars>>
titleFrame == <<clientVars, mapperVars, concVars, tagVars, genomeVars, ratingVars, simVars, asmVars, runVars, normVars, limiterVars>>
asmFrame == <<concVars, tagVars, genomeVars, ratingVars, simVars, titleVars, runVars, normVars, limiterVars>>
runFrame == <<concVars, tagVars, genomeVars, ratingVars, titleVars, normVars, limiterVars>>

vars == <<cache, rateLimiter, readers, writer, pc, call, log, periodAcq, stale, ncalls,
          loaded, mapping, nextIdx, changed, mlog, sideVars>>

NoRecord == [fetched |-> FALSE, credits |-> "none", obj |-> 0]

NoCall == [key |-> 0, id |-> 0, tokens |-> 0, reqs |-> 0,
           hit |-> FALSE, primary |-> "none", secondary |-> "none",
           rec |-> NoRecord, err |-> FALSE]

PrimaryOutcomes == {"transport", "notfound", "status", "baddecode", "ok"}
SecondaryOutcomes == {"transport", "status", "baddecode", "ok"}

(* NewTMDBClient: empty cache, a ticker whose first tick is one interval   *)
(* away, nobody calling.                                                   *)
ClientInit ==
    /\ cache = [k \in Keys |-> NoRecord]
    /\ rateLimiter = 0
    /\ readers = {}
    /\ writer = 0
    /\ pc = [w \in Workers |-> "idle"]
    /\ call = [w \in Workers |-> NoCall]
    /\ log = <<>>
    /\ periodAcq = 0
    /\ stale = FALSE
    /\ ncalls = 0

(* A return of FetchMovieData: the call, with its result, joins the log.   *)
Return(w, c) ==
    /\ pc' = [pc EXCEPT ![w] = "idle"]
    /\ call' = [call EXCEPT ![w] = NoCall]
    /\ log' = Append(log, c)

(* time.Second, in nanoseconds, and the default of the flag                *)
(* tmdb-rate-limit.                                                        *)
Second == 1000000000
DefaultRateLimit == 4

(* time.Second / time.Duration(requestsPerSecond): the ticker's interval,  *)
(* an integer number of nanoseconds.                                       *)
TickInterval == Second \div requestsPerSecond

(* time.Tick(d) returns a nil channel, on which no tick ever arrives, when *)
(* d <= 0.                                                                 *)
TickerRuns == TickInterval > 0

LimiterInit(rps) == requestsPerSecond = rps

(* A ticker that queues every tick instead of dropping the ones that find  *)
(* the buffer full.                                                        *)
Tick_Accumulate ==
    /\ TickerRuns
    /\ rateLimiter' = rateLimiter + 1
    /\ stale' = (rateLimiter > 0)
    /\ periodAcq' = 0
    /\ UNCHANGED <<cache, readers, writer, pc, call, log, ncalls, mapperVars, sideVars>>

(* The ticker fires: a non-blocking send on the buffered channel.          *)
Tick ==
    /\ TickerRuns
    /\ rateLimiter' = IF rateLimiter < TickBuffer THEN rateLimiter + 1 ELSE rateLimiter
    /\ stale' = (rateLimiter > 0)
    /\ periodAcq' = 0
    /\ UNCHANGED <<cache, readers, writer, pc, call, log, ncalls, mapperVars, sideVars>>

(* A caller enters FetchMovieData(tmdbID). The workers are                 *)
(* interchangeable: the call goes to the first free one.                   *)
Call(w, k) ==
    /\ pc[w] = "idle"
    /\ \A v \in Workers : v < w => pc[v] # "idle"
    /\ ncalls < MaxCalls
    /\ ncalls' = ncalls + 1
    /\ call' = [call EXCEPT ![w] = [NoCall EXCEPT !.key = k, !.id = ncalls + 1]]
    /\ pc' = [pc EXCEPT ![w] = "RLock"]
    /\ UNCHANGED <<cache, rateLimiter, readers, writer, log, periodAcq, stale, mapperVars, sideVars>>

(* c.cacheMutex.RLock()                                                    *)
RLock(w) ==
    /\ pc[w] = "RLock"
    /\ writer = 0
    /\ readers' = readers \cup {w}
    /\ pc' = [pc EXCEPT ![w] = "CacheCheck"]
    /\ UNCHANGED <<cache, rateLimiter, writer, call, log, periodAcq, ncalls, stale, mapperVars, sideVars>>

(* A lookup that never finds the key.                                      *)
CacheCheck_AlwaysMiss(w) ==
    /\ pc[w] = "CacheCheck"
    /\ readers' = readers \ {w}
    /\ pc' = [pc EXCEPT ![w] = "Acquire1"]
    /\ UNCHANGED <<call, log>>
    /\ UNCHANGED <<cache, rateLimiter, writer, periodAcq, ncalls, stale, mapperVars, sideVars>>

(* A lookup that keeps the read lock when it misses.                       *)
CacheCheck_NoRUnlock(w) ==
    /\ pc[w] = "CacheCheck"
    /\ IF cache[call[w].key] # NoRecord
         THEN /\ Return(w, [call[w] EXCEPT !.hit = TRUE, !.rec = cache[call[w].key]])
              /\ readers' = readers \ {w}
         ELSE /\ pc' = [pc EXCEPT ![w] = "Acquire1"]
              /\ UNCHANGED <<call, log, readers>>
    /\ UNCHANGED <<cache, rateLimiter, writer, periodAcq, ncalls, stale, mapperVars, sideVars>>

(* The cache lookup under the read lock, RUnlock on both branches.         *)
CacheCheck(w) ==
    /\ pc[w] = "CacheCheck"
    /\ readers' = readers \ {w}
    /\ IF cache[call[w].key] # NoRecord
         THEN Return(w, [call[w] EXCEPT !.hit = TRUE, !.rec = cache[call[w].key]])
         ELSE /\ pc' = [pc EXCEPT ![w] = "Acquire1"]
              /\ UNCHANGED <<call, log>>
    /\ UNCHANGED <<cache, rateLimiter, writer, periodAcq, ncalls, stale, mapperVars, sideVars>>

(* <-c.rateLimiter                                                         *)
TakeToken(w, next) ==
    /\ rateLimiter > 0
    /\ rateLimiter' = rateLimiter - 1
    /\ stale' = FALSE
    /\ periodAcq' = periodAcq + 1
    /\ call' = [call EXCEPT ![w].tokens = @ + 1]
    /\ pc' = [pc EXCEPT ![w] = next]
    /\ UNCHANGED <<cache, readers, writer, log, ncalls, mapperVars, sideVars>>

Acquire1(w) ==
    /\ pc[w] = "Acquire1"
    /\ TakeToken(w, "GetMovie")

(* A primary fetch that treats every non-200 status like a 404.            *)
GetMovie_CacheOnError(w, outcome) ==
    /\ pc[w] = "GetMovie"
    /\ LET c == [call[w] EXCEPT !.reqs = @ + 1, !.primary = outcome]
       IN CASE outcome \in {"notfound", "status"} ->
                 /\ call' = [call EXCEPT ![w] =
                        [c EXCEPT !.rec = [fetched |-> FALSE, credits |-> "empty", obj |-> c.id]]]
                 /\ pc' = [pc EXCEPT ![w] = "Lock404"]
                 /\ UNCHANGED log
            [] outcome = "ok" ->
                 /\ call' = [call EXCEPT ![w] = c]
                 /\ pc' = [pc EXCEPT ![w] = "Acquire2"]
                 /\ UNCHANGED log
            [] OTHER -> Return(w, [c EXCEPT !.err = TRUE])
    /\ UNCHANGED <<cache, rateLimiter, readers, writer, periodAcq, ncalls, stale, mapperVars, sideVars>>

(* A primary fetch that ignores the decode error and goes on to the        *)
(* credits.                                                                *)
GetMovie_DecodeErrorIgnored(w, outcome) ==
    /\ pc[w] = "GetMovie"
    /\ LET c == [call[w] EXCEPT !.reqs = @ + 1, !.primary = outcome]
       IN CASE outcome = "notfound" ->
                 /\ call' = [call EXCEPT ![w] =
                        [c EXCEPT !.rec = [fetched |-> FALSE, credits |-> "empty", obj |-> c.id]]]
                 /\ pc' = [pc EXCEPT ![w] = "Lock404"]
                 /\ UNCHANGED log
            [] outcome \in {"ok", "baddecode"} ->
                 /\ call' = [call EXCEPT ![w] = c]
                 /\ pc' = [pc EXCEPT ![w] = "Acquire2"]
                 /\ UNCHANGED log
            [] OTHER -> Return(w, [c EXCEPT !.err = TRUE])
    /\ UNCHANGED <<cache, rateLimiter, readers, writer, periodAcq, ncalls, stale, mapperVars, sideVars>>

(* httpClient.Get(movieURL) and the handling of its answer.                *)
GetMovie(w, outcome) ==
    /\ pc[w] = "GetMovie"
    /\ LET c == [call[w] EXCEPT !.reqs = @ + 1, !.primary = outcome]
       IN CASE outcome = "notfound" ->
                 /\ call' = [call EXCEPT ![w] =
                        [c EXCEPT !.rec = [fetched |-> FALSE, credits |-> "empty", obj |-> c.id]]]
                 /\ pc' = [pc EXCEPT ![w] = "Lock404"]
                 /\ UNCHANGED log
            [] outcome = "ok" ->
                 /\ call' = [call EXCEPT ![w] = c]
                 /\ pc' = [pc EXCEPT ![w] = "Acquire2"]
                 /\ UNCHANGED log
            [] OTHER -> Return(w, [c EXCEPT !.err = TRUE])
    /\ UNCHANGED <<cache, rateLimiter, readers, writer, periodAcq, ncalls, stale, mapperVars, sideVars>>

(* c.cacheMutex.Lock()                                                     *)
WLock(w, next) ==
    /\ writer = 0
    /\ readers = {}
    /\ writer' = w
    /\ pc' = [pc EXCEPT ![w] = next]
    /\ UNCHANGED <<cache, rateLimiter, readers, call, log, periodAcq, ncalls, stale, mapperVars, sideVars>>

(* c.cache[tmdbID] = data; c.cacheMutex.Unlock(); return data, nil         *)
StoreAndReturn(w) ==
    /\ writer = w
    /\ cache' = [cache EXCEPT ![call[w].key] = call[w].rec]
    /\ writer' = 0
    /\ Return(w, call[w])
    /\ UNCHANGED <<rateLimiter, readers, periodAcq, ncalls, stale, mapperVars, sideVars>>

(* A not-found path that returns the empty record without storing it.      *)
Store404_NoWrite(w) ==
    /\ pc[w] = "Store404"
    /\ writer = w
    /\ writer' = 0
    /\ Return(w, call[w])
    /\ UNCHANGED <<cache, rateLimiter, readers, periodAcq, ncalls, stale, mapperVars, sideVars>>

Lock404(w) ==
    /\ pc[w] = "Lock404"
    /\ WLock(w, "Store404")

Store404(w) ==
    /\ pc[w] = "Store404"
    /\ StoreAndReturn(w)

(* A credits request sent without waiting for the limiter.                 *)
Acquire2_NoToken(w) ==
    /\ pc[w] = "Acquire2"
    /\ pc' = [pc EXCEPT ![w] = "GetCredits"]
    /\ UNCHANGED <<cache, rateLimiter, readers, writer, call, log, periodAcq, ncalls,
                   stale, mapperVars, sideVars>>

Acquire2(w) ==
    /\ pc[w] = "Acquire2"
    /\ TakeToken(w, "GetCredits")

(* httpClient.Get(creditsURL), the decode of the credits and the build of  *)
(* the ExternalData.                                                       *)
GetCredits(w, outcome) ==
    /\ pc[w] = "GetCredits"
    /\ LET c == [call[w] EXCEPT !.reqs = @ + 1, !.secondary = outcome]
       IN IF outcome = "transport"
            THEN Return(w, [c EXCEPT !.err = TRUE])
            ELSE /\ call' = [call EXCEPT ![w] =
                        [c EXCEPT !.rec = [fetched |-> TRUE,
                                           credits |-> IF outcome = "ok" THEN "data" ELSE "empty",
                                           obj |-> c.id]]]
                 /\ pc' = [pc EXCEPT ![w] = "LockStore"]
                 /\ UNCHANGED log
    /\ UNCHANGED <<cache, rateLimiter, readers, writer, periodAcq, ncalls, stale, mapperVars, sideVars>>

LockStore(w) ==
    /\ pc[w] = "LockStore"
    /\ WLock(w, "Store")

Store(w) ==
    /\ pc[w] = "Store"
    /\ StoreAndReturn(w)

FetchMovieData(w) ==
    \/ \E k \in Keys : Call(w, k)
    \/ RLock(w)
    \/ CacheCheck(w)
    \/ Acquire1(w)
    \/ \E o \in PrimaryOutcomes : GetMovie(w, o)
    \/ Lock404(w)
    \/ Store404(w)
    \/ Acquire2(w)
    \/ \E o \in SecondaryOutcomes : GetCredits(w, o)
    \/ LockStore(w)
    \/ Store(w)

ClientNext ==
    \/ Tick
    \/ \E w \in Workers : FetchMovieData(w)

(* The loop of ProcessMovies is the program's only caller: one goroutine,  *)
(* one FetchMovieData at a time.                                           *)
SeqClientNext ==
    \/ Tick
    \/ FetchMovieData(1)

(* ------------------------ identifier mapper ---------------------------- *)
NumMapKeys == 3
MaxLoadedIdx == 2
MaxMapCalls == 3

MapKeys == 1..NumMapKeys
NoIdx == -1

MaxOf(S) == CHOOSE x \in S : \A y \in S : y <= x

Mapped(m) == {k \in DOMAIN m : m[k] # NoIdx}

(* A persisted table as the loaders return it: each row with a key > 0 is  *)
(* kept, whatever its index.                                               *)
LoadedTables == [MapKeys -> {NoIdx} \cup (0..MaxLoadedIdx)]

(* A mapper that starts numbering at the size of the loaded table.         *)
NewIDMapperNext_Count(t) == Cardinality(Mapped(t))

(* NewIDMapper(table): the next index is one more than the largest loaded. *)
NewIDMapperNext(t) ==
    IF Mapped(t) = {} THEN 0 ELSE MaxOf({t[k] : k \in Mapped(t)}) + 1

NewIDMapper(t) ==
    /\ loaded = t
    /\ mapping = [k \in {0} \cup MapKeys |-> IF k \in MapKeys THEN t[k] ELSE NoIdx]
    /\ nextIdx = NewIDMapperNext(t)
    /\ changed = FALSE
    /\ mlog = <<>>

(* GetOrCreate(key), one indivisible step under the mapper's lock.         *)
GetOrCreate(k) ==
    /\ Len(mlog) < MaxMapCalls
    /\ IF mapping[k] # NoIdx
         THEN /\ mlog' = Append(mlog, [key |-> k, idx |-> mapping[k], new |-> FALSE])
              /\ UNCHANGED <<mapping, nextIdx, changed>>
         ELSE /\ mapping' = [mapping EXCEPT ![k] = nextIdx]
              /\ nextIdx' = nextIdx + 1
              /\ changed' = TRUE
              /\ mlog' = Append(mlog, [key |-> k, idx |-> nextIdx, new |-> TRUE])
    /\ UNCHANGED <<loaded, clientVars, sideVars>>

MapperNext == \E k \in MapKeys : GetOrCreate(k)

EmptyTable == [k \in MapKeys |-> NoIdx]

(* ----------------- identifier mapper, concurrent callers --------------- *)
NumMapWorkers == 2
MapWorkers == 1..NumMapWorkers

NoMapCall == [key |-> 0, idx |-> NoIdx, new |-> FALSE, start |-> 0, unseen |-> FALSE]

ConcInit ==
    /\ mmutex = 0
    /\ mpc = [w \in MapWorkers |-> "idle"]
    /\ mcall = [w \in MapWorkers |-> NoMapCall]

MapInFlight == {w \in MapWorkers : mpc[w] # "idle"}

(* A worker calls GetOrCreate(k). The call remembers how many calls had    *)
(* returned when it began and whether the key was unmapped then.           *)
GetOrCreateCall(w, k) ==
    /\ mpc[w] = "idle"
    /\ \A v \in MapWorkers : v < w => mpc[v] # "idle"
    /\ Len(mlog) + Cardinality(MapInFlight) < MaxMapCalls
    /\ mcall' = [mcall EXCEPT ![w] = [NoMapCall EXCEPT !.key = k, !.start = Len(mlog),
                                                      !.unseen = (mapping[k] = NoIdx)]]
    /\ mpc' = [mpc EXCEPT ![w] = "lock"]
    /\ UNCHANGED <<mmutex, clientVars, mapperVars, concFrame>>

(* A lock that lets every caller in. *)
GetOrCreateLock_NoExclusion(w) ==
    /\ mpc[w] = "lock"
    /\ mmutex' = w
    /\ mpc' = [mpc EXCEPT ![w] = "lookup"]
    /\ UNCHANGED <<mcall, clientVars, mapperVars, concFrame>>

(* The caller waits for the mapper's lock. *)
GetOrCreateLock(w) ==
    /\ mpc[w] = "lock"
    /\ mmutex = 0
    /\ mmutex' = w
    /\ mpc' = [mpc EXCEPT ![w] = "lookup"]
    /\ UNCHANGED <<mcall, clientVars, mapperVars, concFrame>>

(* Under the lock: the key's index if it has one, else the next unused.    *)
GetOrCreateLookup(w) ==
    /\ mpc[w] = "lookup"
    /\ IF mapping[mcall[w].key] # NoIdx
         THEN /\ mcall' = [mcall EXCEPT ![w].idx = mapping[mcall[w].key]]
              /\ mpc' = [mpc EXCEPT ![w] = "unlock"]
         ELSE /\ mcall' = [mcall EXCEPT ![w].idx = nextIdx]
              /\ mpc' = [mpc EXCEPT ![w] = "assign"]
    /\ UNCHANGED <<mmutex, clientVars, mapperVars, concFrame>>

(* Under the lock: the new key takes the index, the table is changed.      *)
GetOrCreateAssign(w) ==
    /\ mpc[w] = "assign"
    /\ mapping' = [mapping EXCEPT ![mcall[w].key] = mcall[w].idx]
    /\ nextIdx' = mcall[w].idx + 1
    /\ changed' = TRUE
    /\ mcall' = [mcall EXCEPT ![w].new = TRUE]
    /\ mpc' = [mpc EXCEPT ![w] = "unlock"]
    /\ UNCHANGED <<mmutex, loaded, mlog, clientVars, concFrame>>

(* The caller releases the lock and returns its index. *)
GetOrCreateUnlock(w) ==
    /\ mpc[w] = "unlock"
    /\ mmutex' = 0
    /\ mlog' = Append(mlog, mcall[w])
    /\ mcall' = [mcall EXCEPT ![w] = NoMapCall]
    /\ mpc' = [mpc EXCEPT ![w] = "idle"]
    /\ UNCHANGED <<loaded, mapping, nextIdx, changed, clientVars, concFrame>>

ConcGetOrCreate(w) ==
    \/ \E k \in MapKeys : GetOrCreateCall(w, k)
    \/ GetOrCreateLock(w)
    \/ GetOrCreateLookup(w)
    \/ GetOrCreateAssign(w)
    \/ GetOrCreateUnlock(w)

ConcMapperNext == \E w \in MapWorkers : ConcGetOrCreate(w)

(* ------------------------- user tags (LoadUserTags) -------------------- *)
NumTagUsers == 2
NumTagMovies == 2

TagMovieIds == 1..NumTagMovies

(* Characters of a raw tag: letters, an upper-case letter, white space and *)
(* one of the punctuation marks normalizeTag strips.                       *)
TagAlphabet == {"a", "b", "c", "C", " ", "."}
TagLetters == {"a", "b", "c"}
TagCutset == {"."}
TagSpace == {" "}

(* Byte order of the characters, as Go compares strings. *)
Code == [ch \in TagAlphabet |->
            CASE ch = " " -> 32 [] ch = "." -> 46 [] ch = "C" -> 67
              [] ch = "a" -> 97 [] ch = "b" -> 98 [] ch = "c" -> 99]

ToLower(s) == [i \in 1..Len(s) |-> IF s[i] = "C" THEN "c" ELSE s[i]]

RECURSIVE TrimLeft(_, _)
TrimLeft(s, cut) ==
    IF s # <<>> /\ s[1] \in cut THEN TrimLeft(Tail(s), cut) ELSE s

RECURSIVE TrimRight(_, _)
TrimRight(s, cut) ==
    IF s # <<>> /\ s[Len(s)] \in cut THEN TrimRight(SubSeq(s, 1, Len(s) - 1), cut) ELSE s

Trim(s, cut) == TrimRight(TrimLeft(s, cut), cut)

(* regexp `\s+` replaced by one space. *)
RECURSIVE CollapseSpaces(_)
CollapseSpaces(s) ==
    IF s = <<>> THEN <<>>
    ELSE IF s[1] \in TagSpace
      THEN <<" ">> \o CollapseSpaces(TrimLeft(s, TagSpace))
      ELSE <<s[1]>> \o CollapseSpaces(Tail(s))

normalizeTag(tag) == Trim(CollapseSpaces(Trim(ToLower(tag), TagSpace)), TagCutset)

(* string < string *)
RECURSIVE StrLess(_, _)
StrLess(s, t) ==
    IF t = <<>> THEN FALSE
    ELSE IF s = <<>> THEN TRUE
    ELSE IF s[1] = t[1] THEN StrLess(Tail(s), Tail(t))
    ELSE Code[s[1]] < Code[t[1]]

(* Raw tags of the input: one- and two-letter tags, a differently cased    *)
(* and spaced form of "c", and a tag of punctuation only.                  *)
HotRawTag == <<"C", " ">>
BlankRawTag == <<".", " ">>
LongRawTags == {<<x, y>> : x \in TagLetters, y \in TagLetters}
RawTags == {<<x>> : x \in TagLetters} \cup LongRawTags \cup {HotRawTag, BlankRawTag}

(* Rows of tags.csv the scan can meet. userId / movieId 0 is a field that  *)
(* does not parse (Atoi's 0); arity is the number of fields. User 1 tags   *)
(* movie 1 with every raw tag; the other users tag movie 1 with two tags,  *)
(* and user 1 tags the other movies with one.                              *)
TagRows ==
    {r \in [userId : 0..NumTagUsers, movieId : 0..NumTagMovies,
            tag : RawTags, arity : {3, 4}] :
        \/ r.userId = 1 /\ r.movieId = 1 /\ r.arity = 4
        \/ r.tag \in {HotRawTag, <<"b">>} /\ r.movieId = 1 /\ r.arity = 4
        \/ r.tag = HotRawTag /\ r.userId = 1}

(* The two-letter tags come in one order in the file, the largest first;   *)
(* every other row can come at any time.                                   *)
TagRowInOrder(r) ==
    r.tag \in LongRawTags =>
        \A t \in LongRawTags :
            StrLess(r.tag, t) => \E x \in tagRowsKept : x.tag = t

TagsInit ==
    /\ tagFrequency = {}
    /\ tagRowsKept = {}
    /\ userTags = [m \in TagMovieIds |-> <<>>]
    /\ tagsDone = FALSE

(* A scan that keys the frequency table by the raw tag. *)
ReadTagRow_RawKey(r) ==
    /\ ~tagsDone
    /\ IF r.arity >= 4 /\ normalizeTag(r.tag) # <<>> /\ r.movieId > 0 /\ r.userId > 0
         THEN /\ tagFrequency' = tagFrequency \cup
                    {[movieId |-> r.movieId, tag |-> r.tag, userId |-> r.userId]}
              /\ tagRowsKept' = tagRowsKept \cup {r}
         ELSE UNCHANGED <<tagFrequency, tagRowsKept>>
    /\ UNCHANGED <<userTags, tagsDone, tagFrame>>

(* One iteration of LoadUserTags' scan. *)
ReadTagRow(r) ==
    /\ ~tagsDone
    /\ IF r.arity >= 4 /\ normalizeTag(r.tag) # <<>> /\ r.movieId > 0 /\ r.userId > 0
         THEN /\ tagFrequency' = tagFrequency \cup
                    {[movieId |-> r.movieId, tag |-> normalizeTag(r.tag), userId |-> r.userId]}
              /\ tagRowsKept' = tagRowsKept \cup {r}
         ELSE UNCHANGED <<tagFrequency, tagRowsKept>>
    /\ UNCHANGED <<userTags, tagsDone, tagFrame>>

TagsOf(m) == {e.tag : e \in {x \in tagFrequency : x.movieId = m}}

(* len(users): the number of userIds in the tag's set. *)
Frequency(m, t) == Cardinality({e \in tagFrequency : e.movieId = m /\ e.tag = t})

(* A comparison that ignores the frequency. *)
TagLess_Alphabetical(m, a, b) == StrLess(a, b)

(* sort.Slice's less: frequency descending, then the tag ascending. *)
TagLess(m, a, b) ==
    IF Frequency(m, a) # Frequency(m, b)
      THEN Frequency(m, a) > Frequency(m, b)
      ELSE StrLess(a, b)

RECURSIVE SortTags(_, _)
SortTags(m, S) ==
    IF S = {} THEN <<>>
    ELSE LET first == CHOOSE t \in S : \A u \in S \ {t} : TagLess(m, t, u)
         IN  <<first>> \o SortTags(m, S \ {first})

maxTags == 10

TopTags_All(list) == list

TopTags(list) == IF Len(list) > maxTags THEN SubSeq(list, 1, maxTags) ELSE list

(* End of file: rank each movie's tags and keep the top ones. *)
FinishUserTags ==
    /\ ~tagsDone
    /\ userTags' = [m \in TagMovieIds |-> TopTags(SortTags(m, TagsOf(m)))]
    /\ tagsDone' = TRUE
    /\ UNCHANGED <<tagFrequency, tagRowsKept, tagFrame>>

LoadUserTagsNext ==
    \/ \E r \in TagRows : TagRowInOrder(r) /\ ReadTagRow(r)
    \/ FinishUserTags

(* --------------------- relevance scores (LoadGenomeScores) ------------- *)
MaxRelevance == 2
MaxGenomeRows == 3

(* Relevance in steps of the input's resolution; 0 is also what ParseFloat *)
(* leaves for a field that does not parse.                                 *)
Relevances == 0..MaxRelevance

(* movieId 0 is a field that does not parse. *)
GenomeMovieIds == {0, 1}

(* genomeTagsMap: tagId -> tag name. *)
GenomeTagsMap == [id \in {1, 2} |-> <<"tag", id>>]

(* tagId 0 does not parse, tagId 3 has no name. *)
GenomeRows ==
    [movieId : GenomeMovieIds, tagId : {0, 1, 2, 3}, relevance : Relevances, arity : {2, 3}]

GenomeInit(threshold) ==
    /\ minRelevance = threshold
    /\ scores = [m \in GenomeMovieIds |-> <<>>]
    /\ genomeRead = 0
    /\ genomeScores = [m \in GenomeMovieIds |-> <<>>]
    /\ genomeDone = FALSE

(* A scan that keeps the entries below the threshold too. *)
ReadGenomeRow_NoThreshold(r) ==
    /\ ~genomeDone
    /\ genomeRead < MaxGenomeRows
    /\ genomeRead' = genomeRead + 1
    /\ IF r.arity >= 3 /\ r.tagId \in DOMAIN GenomeTagsMap
         THEN scores' = [scores EXCEPT ![r.movieId] =
                            Append(@, [tag |-> GenomeTagsMap[r.tagId], relevance |-> r.relevance])]
         ELSE UNCHANGED scores
    /\ UNCHANGED <<minRelevance, genomeScores, genomeDone, genomeFrame>>

(* One iteration of LoadGenomeScores' scan. *)
ReadGenomeRow(r) ==
    /\ ~genomeDone
    /\ genomeRead < MaxGenomeRows
    /\ genomeRead' = genomeRead + 1
    /\ IF r.arity >= 3 /\ r.relevance >= minRelevance /\ r.tagId \in DOMAIN GenomeTagsMap
         THEN scores' = [scores EXCEPT ![r.movieId] =
                            Append(@, [tag |-> GenomeTagsMap[r.tagId], relevance |-> r.relevance])]
         ELSE UNCHANGED scores
    /\ UNCHANGED <<minRelevance, genomeScores, genomeDone, genomeFrame>>

Perms(n) == {f \in [1..n -> 1..n] : \A i, j \in 1..n : i # j => f[i] # f[j]}

(* sort.Slice with less = (a.Relevance > b.Relevance): the sort is not     *)
(* stable, so every reordering that ends sorted is a possible result.      *)
SortByRelevance(list) ==
    {sorted \in {[i \in 1..Len(list) |-> list[f[i]]] : f \in Perms(Len(list))} :
        \A i, j \in 1..Len(list) : i < j => ~(sorted[j].relevance > sorted[i].relevance)}

(* End of file: sort each movie's entries and return. *)
FinishGenomeScores ==
    /\ ~genomeDone
    /\ genomeScores' \in
          {g \in [GenomeMovieIds -> UNION {SortByRelevance(scores[m]) : m \in GenomeMovieIds}] :
              \A m \in GenomeMovieIds : g[m] \in SortByRelevance(scores[m])}
    /\ genomeDone' = TRUE
    /\ UNCHANGED <<minRelevance, scores, genomeRead, genomeFrame>>

LoadGenomeScoresNext ==
    \/ \E r \in GenomeRows : ReadGenomeRow(r)
    \/ FinishGenomeScores

(* ----------------------- rating stats (LoadRatingStats) ---------------- *)
NumRatingMovies == 2
MaxRating == 2
MaxTimestamp == 2
MaxRatingRows == 3

(* A numeric field of a row: its text parses to a value or does not.       *)
Field(values) == [parses : {TRUE}, value : values] \cup {[parses |-> FALSE, value |-> 0]}

(* strconv.Atoi / ParseFloat / ParseInt with the error dropped: the zero   *)
(* value for a field that does not parse.                                  *)
Parsed(f) == IF f.parses THEN f.value ELSE 0

RatingRows ==
    [movieId : Field(1..NumRatingMovies), rating : Field(1..MaxRating),
     timestamp : Field(1..MaxTimestamp), arity : {3, 4}]

RatingKeys == 0..NumRatingMovies

NoAccum == [sum |-> 0, count |-> 0, lastTs |-> 0]
NoStats == [sum |-> 0, count |-> 0, lastRatedAt |-> 0]

RatingInit ==
    /\ accums = [m \in RatingKeys |-> NoAccum]
    /\ ratingRead = 0
    /\ ratingValid = [m \in RatingKeys |-> NoAccum]
    /\ ratingStats = [m \in RatingKeys |-> NoStats]
    /\ ratingDone = FALSE

Accumulate(acc, rating, ts) ==
    [sum |-> acc.sum + rating, count |-> acc.count + 1,
     lastTs |-> IF ts > acc.lastTs THEN ts ELSE acc.lastTs]

WellFormed(r) ==
    r.arity >= 4 /\ r.movieId.parses /\ r.rating.parses /\ r.timestamp.parses

(* One iteration of LoadRatingStats' scan. *)
ReadRatingRow(r) ==
    /\ ~ratingDone
    /\ ratingRead < MaxRatingRows
    /\ ratingRead' = ratingRead + 1
    /\ IF r.arity < 4
         THEN UNCHANGED accums
         ELSE accums' = [accums EXCEPT ![Parsed(r.movieId)] =
                            Accumulate(@, Parsed(r.rating), Parsed(r.timestamp))]
    /\ IF WellFormed(r)
         THEN ratingValid' = [ratingValid EXCEPT ![r.movieId.value] =
                                  Accumulate(@, r.rating.value, r.timestamp.value)]
         ELSE UNCHANGED ratingValid
    /\ UNCHANGED <<ratingStats, ratingDone, ratingFrame>>

(* End of file: one aggregate per accumulator with count > 0. The average  *)
(* is kept as the quotient sum / count.                                    *)
FinishRatingStats ==
    /\ ~ratingDone
    /\ ratingStats' = [m \in RatingKeys |->
                          IF accums[m].count > 0
                            THEN [sum |-> accums[m].sum, count |-> accums[m].count,
                                  lastRatedAt |-> accums[m].lastTs]
                            ELSE NoStats]
    /\ ratingDone' = TRUE
    /\ UNCHANGED <<accums, ratingRead, ratingValid, ratingFrame>>

LoadRatingStatsNext ==
    \/ \E r \in RatingRows : ReadRatingRow(r)
    \/ FinishRatingStats

(* ------------- similarities (LoadSimilarities, ProcessSimilarities) ---- *)
FreeSimRows == 2
MaxSimRows == 23

(* Indices of the similarity file; 0 is also a field that does not parse.  *)
SimIdx == {0, 1, 2}
SimWeights == {1, 2}

SimRows == [iIdx : SimIdx, jIdx : SimIdx, sim : SimWeights, arity : {2, 3}]

(* The file begins with rows of any kind and goes on with rows of source   *)
(* index 1 whose targets and weights keep changing.                        *)
SimRowAt(n, r) ==
    n >= FreeSimRows =>
        /\ r.arity = 3
        /\ r.iIdx = 1
        /\ r.jIdx = 1 + (n % 2)
        /\ r.sim = 1 + (n % 2)

(* The table the mapper builds from an empty one: key k -> index k - 1. *)
DenseTable == [k \in MapKeys |-> k - 1]

(* The inverse lookups a range over the key -> index map can build: for an *)
(* index held by several keys, the key met last wins.                      *)
ReverseMaps ==
    {f \in [SimIdx -> {0} \cup MapKeys] :
        \A i \in SimIdx :
            IF \E k \in Mapped(mapping) : mapping[k] = i
              THEN f[i] \in Mapped(mapping) /\ mapping[f[i]] = i
              ELSE f[i] = 0}

NoSimDoc == [id |-> <<0, "_cosine_k", 0>>, movieId |-> 0, iIdx |-> 0, k |-> 0,
             neighbors |-> <<>>]

SimIdle ==
    /\ reverseMap = [i \in SimIdx |-> 0]
    /\ similarities = [i \in SimIdx |-> <<>>]
    /\ simRead = 0
    /\ simLoaded = FALSE
    /\ simDocs = [i \in SimIdx |-> NoSimDoc]
    /\ simWritten = FALSE

(* LoadSimilarities up to its scan: the inverse of the mapper's table.     *)
SimInit ==
    /\ reverseMap \in ReverseMaps
    /\ similarities = [i \in SimIdx |-> <<>>]
    /\ simRead = 0
    /\ simLoaded = FALSE
    /\ simDocs = [i \in SimIdx |-> NoSimDoc]
    /\ simWritten = FALSE

(* One iteration of LoadSimilarities' scan. *)
ReadSimRow(r) ==
    /\ ~simLoaded
    /\ simRead < MaxSimRows
    /\ simRead' = simRead + 1
    /\ IF r.arity >= 3 /\ r.iIdx > 0 /\ r.jIdx > 0
         THEN similarities' = [similarities EXCEPT ![r.iIdx] =
                  Append(@, [movieId |-> reverseMap[r.jIdx], iIdx |-> r.jIdx, sim |-> r.sim])]
         ELSE UNCHANGED similarities
    /\ UNCHANGED <<reverseMap, simLoaded, simDocs, simWritten, simFrame>>

(* End of file. *)
FinishSimilarities ==
    /\ ~simLoaded
    /\ simLoaded' = TRUE
    /\ UNCHANGED <<reverseMap, similarities, simRead, simDocs, simWritten, simFrame>>

maxNeighbors == 20

(* A cut that first orders the neighbors by weight, largest first.         *)
RECURSIVE SortedByWeight(_)
SortedByWeight(list) ==
    IF list = <<>> THEN <<>>
    ELSE LET top == CHOOSE i \in 1..Len(list) :
                       \A j \in 1..Len(list) :
                           list[j].sim < list[i].sim \/ (list[j].sim = list[i].sim /\ i <= j)
         IN  <<list[top]>> \o
             SortedByWeight([k \in 1..(Len(list) - 1) |-> IF k < top THEN list[k] ELSE list[k + 1]])

Limit_Sorted(neighbors) ==
    IF Len(neighbors) > maxNeighbors
      THEN SubSeq(SortedByWeight(neighbors), 1, maxNeighbors)
      ELSE SortedByWeight(neighbors)

(* neighbors[:20] *)
Limit(neighbors) ==
    IF Len(neighbors) > maxNeighbors THEN SubSeq(neighbors, 1, maxNeighbors) ELSE neighbors

(* An identifier that ends with the number of neighbors of the document.   *)
SimilarityDocID_OwnK(iIdx, k) == <<iIdx, "_cosine_k", k>>

(* fmt.Sprintf("%d_cosine_k20", iIdx): the identifier's parts.             *)
SimilarityDocID(iIdx, k) == <<iIdx, "_cosine_k", maxNeighbors>>

(* ProcessSimilarities: one document per source index of the table.        *)
ProcessSimilarities ==
    /\ simLoaded /\ ~simWritten
    /\ \E rm \in ReverseMaps :
          simDocs' = [i \in SimIdx |->
              IF similarities[i] = <<>> THEN NoSimDoc
              ELSE [id |-> SimilarityDocID(i, Len(Limit(similarities[i]))),
                    movieId |-> rm[i], iIdx |-> i,
                    k |-> Len(Limit(similarities[i])),
                    neighbors |-> Limit(similarities[i])]]
    /\ simWritten' = TRUE
    /\ UNCHANGED <<reverseMap, similarities, simRead, simLoaded, simFrame>>

SimilaritiesNext ==
    \/ \E r \in SimRows : SimRowAt(simRead, r) /\ ReadSimRow(r)
    \/ FinishSimilarities
    \/ ProcessSimilarities

(* ------------------------ one tag (normalizeTag) ----------------------- *)
MaxTagLen == 3

(* Every string of the tag characters up to the length bound. *)
AnyRawTags == UNION {[1..n -> TagAlphabet] : n \in 0..MaxTagLen}

NormIdle ==
    /\ normRaw = <<>>
    /\ normTag = <<>>
    /\ normDone = FALSE

NormInit ==
    /\ normRaw \in AnyRawTags
    /\ normTag = <<>>
    /\ normDone = FALSE

ApplyNormalizeTag ==
    /\ ~normDone
    /\ normTag' = normalizeTag(normRaw)
    /\ normDone' = TRUE
    /\ UNCHANGED <<normRaw, clientVars, mapperVars, concVars, tagVars, genomeVars, ratingVars,
                   simVars, titleVars, asmVars, runVars, limiterVars>>

NormalizeNext == ApplyNormalizeTag

(* ---------------------- titles (parseTitleAndYear) --------------------- *)
MaxAffixLen == 2

(* Characters of a raw title: a letter, white space, parentheses, digits.  *)
TitleAlphabet == {"T", " ", "(", ")", "1"}
TitleDigits == {"1", "9"}
TitleSpace == {" "}

DigitValue == [c \in TitleDigits |-> IF c = "1" THEN 1 ELSE 9]

Affixes == UNION {[1..n -> TitleAlphabet] : n \in 0..MaxAffixLen}

(* What stands between the two ends of a raw title: nothing, a year group, *)
(* groups of three and of five digits, a group left open, two year groups. *)
TitleGroups ==
    { <<>>,
      <<"(", "1", "9", "9", "9", ")">>,
      <<"(", "1", "9", "9", ")">>,
      <<"(", "1", "9", "9", "9", "9", ")">>,
      <<"(", "1", "9", "9", "9">>,
      <<"(", "1", "9", "1", "1", ")", " ", "(", "1", "9", "9", "9", ")">> }

RawTitles == {a \o g \o b : a \in Affixes, g \in TitleGroups, b \in Affixes}

NoYear == [present |-> FALSE, value |-> 0]

TitleIdle ==
    /\ titleRaw = <<>>
    /\ title = <<>>
    /\ year = NoYear
    /\ titleParsed = FALSE

TitleInit ==
    /\ titleRaw \in RawTitles
    /\ title = <<>>
    /\ year = NoYear
    /\ titleParsed = FALSE

(* yearRe = \((\d{4})\)\s*$ : where the match begins, 0 without a match.  *)
YearMatch(raw) ==
    LET starts == {p \in 1..Len(raw) :
                      /\ p + 5 <= Len(raw)
                      /\ raw[p] = "("
                      /\ \A d \in 1..4 : raw[p + d] \in TitleDigits
                      /\ raw[p + 5] = ")"
                      /\ \A q \in (p + 6)..Len(raw) : raw[q] \in TitleSpace}
    IN  IF starts = {} THEN 0 ELSE CHOOSE p \in starts : \A q \in starts : p <= q

(* strconv.Atoi of a string of digits. *)
RECURSIVE Atoi(_)
Atoi(digits) ==
    IF digits = <<>> THEN 0
    ELSE 10 * Atoi(SubSeq(digits, 1, Len(digits) - 1)) + DigitValue[digits[Len(digits)]]

(* The first "(" instead of the last. *)
LastIndex_First(raw, ch) ==
    IF \E i \in 1..Len(raw) : raw[i] = ch
      THEN (CHOOSE i \in 1..Len(raw) : raw[i] = ch /\ \A j \in 1..(i - 1) : raw[j] # ch) - 1
      ELSE 0 - 1

(* strings.LastIndex(raw, ch), counted from 0; -1 when ch is not in raw.   *)
LastIndex(raw, ch) ==
    IF \E i \in 1..Len(raw) : raw[i] = ch
      THEN (CHOOSE i \in 1..Len(raw) : raw[i] = ch /\ \A j \in (i + 1)..Len(raw) : raw[j] # ch) - 1
      ELSE 0 - 1

parseTitleAndYear(raw0) ==
    LET raw == Trim(raw0, TitleSpace)
        m == YearMatch(raw)
        idx == LastIndex(raw, "(")
    IN  IF m # 0
          THEN [title |-> IF idx > 0 THEN Trim(SubSeq(raw, 1, idx), TitleSpace)
                                     ELSE Trim(raw, TitleSpace),
                year |-> [present |-> TRUE, value |-> Atoi(SubSeq(raw, m + 1, m + 4))]]
          ELSE [title |-> raw, year |-> NoYear]

ParseTitle ==
    /\ ~titleParsed
    /\ title' = parseTitleAndYear(titleRaw).title
    /\ year' = parseTitleAndYear(titleRaw).year
    /\ titleParsed' = TRUE
    /\ UNCHANGED <<titleRaw, titleFrame>>

TitleNext == ParseTitle

(* ------------------------ assembler (ProcessMovies) -------------------- *)
MaxCatalogRows == 3

(* movieId of a catalog row; 0 is a field that does not parse. *)
CatalogIds == {0} \cup MapKeys

(* The TMDB id at the end of the movie's link: 0 when the movie has no     *)
(* link or the link ends without an id.                                    *)
LinkOf(mid) == mid % (NumKeys + 1)

NoDoc == [movieId |-> 0, iIdx |-> NoIdx, tmdbID |-> 0, genomeTags |-> <<>>,
          externalData |-> NoRecord, fetches |-> 0, fetchErr |-> FALSE]

(* The default of the flag top-genome-tags. *)
DefaultTopGenomeTags == 10

(* The last n entries instead of the first. *)
TopGenome_Tail(gTags, n) ==
    IF Len(gTags) > n THEN SubSeq(gTags, Len(gTags) - n + 1, Len(gTags)) ELSE gTags

(* gTags[:topGenomeTags] when the list is longer than topGenomeTags.       *)
TopGenome(gTags, n) ==
    IF Len(gTags) > n THEN SubSeq(gTags, 1, n) ELSE gTags

(* genomeTags[mid], the empty list for a movie without entries. *)
GenomeTagsOf(mid) == IF mid \in DOMAIN genomeScores THEN genomeScores[mid] ELSE <<>>

AsmIdle ==
    /\ fetchExternal = FALSE
    /\ topGenomeTags = DefaultTopGenomeTags
    /\ asmPc = "done"
    /\ asmRead = 0
    /\ asmDoc = NoDoc
    /\ docs = <<>>
    /\ fetchedCount = 0
    /\ errorCount = 0

AsmInit ==
    /\ fetchExternal \in BOOLEAN
    /\ topGenomeTags = DefaultTopGenomeTags
    /\ asmPc = "read"
    /\ asmRead = 0
    /\ asmDoc = NoDoc
    /\ docs = <<>>
    /\ fetchedCount = 0
    /\ errorCount = 0

(* One row of movies.csv up to the call of FetchMovieData: the document    *)
(* with its index from itemMapper.GetOrCreate(mid) and its link; then the  *)
(* call begins, or the document is written as it is.                       *)
AsmRecord(mid) ==
    /\ asmPc = "read"
    /\ asmRead < MaxCatalogRows
    /\ fetchExternal /\ LinkOf(mid) # 0 => ncalls < MaxCalls
    /\ asmRead' = asmRead + 1
    /\ LET iIdx == IF mapping[mid] # NoIdx THEN mapping[mid] ELSE nextIdx
           doc == [NoDoc EXCEPT !.movieId = mid, !.iIdx = iIdx, !.tmdbID = LinkOf(mid),
                                !.genomeTags = TopGenome(GenomeTagsOf(mid), topGenomeTags)]
       IN  /\ IF mapping[mid] # NoIdx
                THEN UNCHANGED <<mapping, nextIdx, changed>>
                ELSE /\ mapping' = [mapping EXCEPT ![mid] = nextIdx]
                     /\ nextIdx' = nextIdx + 1
                     /\ changed' = TRUE
           /\ mlog' = Append(mlog, [key |-> mid, idx |-> iIdx, new |-> (mapping[mid] = NoIdx)])
           /\ IF fetchExternal /\ LinkOf(mid) # 0
                THEN /\ asmDoc' = [doc EXCEPT !.fetches = 1]
                     /\ asmPc' = "fetching"
                     /\ ncalls' = ncalls + 1
                     /\ call' = [call EXCEPT ![1] =
                                     [NoCall EXCEPT !.key = LinkOf(mid), !.id = ncalls + 1]]
                     /\ pc' = [pc EXCEPT ![1] = "RLock"]
                     /\ UNCHANGED docs
                ELSE /\ docs' = Append(docs, doc)
                     /\ UNCHANGED <<asmDoc, asmPc, ncalls, call, pc>>
    /\ UNCHANGED <<cache, rateLimiter, readers, writer, log, periodAcq, stale, loaded,
                   fetchExternal, topGenomeTags, fetchedCount, errorCount, asmFrame>>

(* An assembler that writes no document for a record whose fetch failed.   *)
AsmFetched_SkipOnError ==
    /\ asmPc = "fetching"
    /\ pc[1] = "idle"
    /\ LET res == log[Len(log)]
       IN  IF res.err
             THEN /\ errorCount' = errorCount + 1
                  /\ UNCHANGED <<docs, fetchedCount>>
             ELSE IF res.rec.fetched
               THEN /\ docs' = Append(docs, [asmDoc EXCEPT !.externalData = res.rec])
                    /\ fetchedCount' = fetchedCount + 1
                    /\ UNCHANGED errorCount
               ELSE /\ docs' = Append(docs, asmDoc)
                    /\ UNCHANGED <<fetchedCount, errorCount>>
    /\ asmPc' = "read"
    /\ asmDoc' = NoDoc
    /\ UNCHANGED <<clientVars, mapperVars, fetchExternal, topGenomeTags, asmRead, asmFrame>>

(* An assembler that attaches whatever record comes back without error.   *)
AsmFetched_AttachUnfetched ==
    /\ asmPc = "fetching"
    /\ pc[1] = "idle"
    /\ LET res == log[Len(log)]
       IN  IF res.err
             THEN /\ errorCount' = errorCount + 1
                  /\ docs' = Append(docs, [asmDoc EXCEPT !.fetchErr = TRUE])
                  /\ UNCHANGED fetchedCount
             ELSE /\ docs' = Append(docs, [asmDoc EXCEPT !.externalData = res.rec])
                  /\ fetchedCount' = fetchedCount + 1
                  /\ UNCHANGED errorCount
    /\ asmPc' = "read"
    /\ asmDoc' = NoDoc
    /\ UNCHANGED <<clientVars, mapperVars, fetchExternal, topGenomeTags, asmRead, asmFrame>>

(* FetchMovieData has returned: count the error, or attach the record if   *)
(* it was fetched; write the document; go on with the next row.            *)
AsmFetched ==
    /\ asmPc = "fetching"
    /\ pc[1] = "idle"
    /\ LET res == log[Len(log)]
       IN  IF res.err
             THEN /\ errorCount' = errorCount + 1
                  /\ docs' = Append(docs, [asmDoc EXCEPT !.fetchErr = TRUE])
                  /\ UNCHANGED fetchedCount
             ELSE IF res.rec.fetched
               THEN /\ docs' = Append(docs, [asmDoc EXCEPT !.externalData = res.rec])
                    /\ fetchedCount' = fetchedCount + 1
                    /\ UNCHANGED errorCount
               ELSE /\ docs' = Append(docs, asmDoc)
                    /\ UNCHANGED <<fetchedCount, errorCount>>
    /\ asmPc' = "read"
    /\ asmDoc' = NoDoc
    /\ UNCHANGED <<clientVars, mapperVars, fetchExternal, topGenomeTags, asmRead, asmFrame>>

(* End of movies.csv. *)
AsmFinish ==
    /\ asmPc = "read"
    /\ asmPc' = "done"
    /\ UNCHANGED <<clientVars, mapperVars, fetchExternal, topGenomeTags, asmRead, asmDoc, docs,
                   fetchedCount, errorCount, asmFrame>>

AsmNext ==
    \/ \E mid \in CatalogIds : AsmRecord(mid)
    \/ AsmFetched
    \/ AsmFinish
    \/ Tick
    \/ RLock(1)
    \/ CacheCheck(1)
    \/ Acquire1(1)
    \/ \E o \in PrimaryOutcomes : GetMovie(1, o)
    \/ Lock404(1)
    \/ Store404(1)
    \/ Acquire2(1)
    \/ \E o \in SecondaryOutcomes : GetCredits(1, o)
    \/ LockStore(1)
    \/ Store(1)

(* ------------------------------ main ----------------------------------- *)
NumRunUsers == 2

(* movies.csv lists the movies 1, 2, 3, ... in this order. *)
CatalogInOrder(mid) == mid = asmRead + 1

UserKeys == 1..NumRunUsers

Processors == {"processMovies", "processRatings", "processUsers", "processSimilarities"}

RunFlags == [Processors \cup {"updateMappings"} -> BOOLEAN]

(* The flags' defaults. *)
DefaultFlags == [f \in Processors \cup {"updateMappings"} |-> f \in Processors]

EnabledProcessors == {p \in Processors : flags[p]}

(* NewIDMapper(table) as a value. *)
NewMapper(t) == [mapping |-> t, nextIdx |-> NewIDMapperNext(t), changed |-> FALSE]

(* GetOrCreate(key) on a mapper value: the mapper after the call, the      *)
(* index returned, and whether the key was new.                            *)
MapperGetOrCreate(m, k) ==
    IF m.mapping[k] # NoIdx
      THEN [mapper |-> m, idx |-> m.mapping[k], new |-> FALSE]
      ELSE [mapper |-> [mapping |-> [m.mapping EXCEPT ![k] = m.nextIdx],
                        nextIdx |-> m.nextIdx + 1,
                        changed |-> TRUE],
            idx |-> m.nextIdx, new |-> TRUE]

(* user_map.csv: missing, or the table of an earlier run. *)
UserTables == {[k \in UserKeys |-> NoIdx], [k \in UserKeys |-> k - 1]}

RunIdle ==
    /\ flags = DefaultFlags
    /\ runPc = "none"
    /\ completed = {}
    /\ userMapper = NewMapper([k \in UserKeys |-> NoIdx])
    /\ userLog = <<>>
    /\ usersLeft = {}
    /\ saved = <<>>

(* main up to the first processor: the flags are parsed, the mappers are   *)
(* built from the loaded tables.                                           *)
RunInit ==
    /\ flags \in RunFlags
    /\ runPc = "movies"
    /\ completed = {}
    /\ \E t \in UserTables :
          userMapper = NewMapper(IF flags["processUsers"] THEN t ELSE [k \in UserKeys |-> NoIdx])
    /\ userLog = <<>>
    /\ usersLeft = {}
    /\ saved = <<>>

RunOutcomes == {"skip", "fail", "ok"}

(* if *processMovies: ProcessMovies begins, or returns an error before its *)
(* loop (the catalog or the output cannot be opened) and main exits.       *)
RunMovies(outcome) ==
    /\ runPc = "movies"
    /\ (outcome = "skip") <=> ~flags["processMovies"]
    /\ runPc' = CASE outcome = "skip" -> "ratings"
                  [] outcome = "fail" -> "exit1"
                  [] outcome = "ok" -> "inMovies"
    /\ asmPc' = IF outcome = "ok" THEN "read" ELSE asmPc
    /\ UNCHANGED <<clientVars, mapperVars, fetchExternal, topGenomeTags, asmRead, asmDoc, docs,
                   fetchedCount, errorCount, flags, completed, userMapper, userLog,
                   usersLeft, saved, simVars, runFrame>>

(* ProcessMovies has returned its count. *)
RunMoviesReturn ==
    /\ runPc = "inMovies"
    /\ asmPc = "done"
    /\ runPc' = "ratings"
    /\ completed' = completed \cup {"processMovies"}
    /\ UNCHANGED <<clientVars, mapperVars, asmVars, flags, userMapper, userLog, usersLeft,
                   saved, simVars, runFrame>>

(* if *processRatings: ProcessRatings returns, with or without an error.   *)
RunRatings(outcome) ==
    /\ runPc = "ratings"
    /\ (outcome = "skip") <=> ~flags["processRatings"]
    /\ runPc' = IF outcome = "fail" THEN "exit1" ELSE "users"
    /\ completed' = IF outcome = "ok" THEN completed \cup {"processRatings"} ELSE completed
    /\ UNCHANGED <<clientVars, mapperVars, asmVars, flags, userMapper, userLog, usersLeft,
                   saved, simVars, runFrame>>

(* if *processUsers: ProcessUsers collects the userIds > 0 of ratings.csv, *)
(* or returns an error before its loop and main exits.                     *)
RunUsers(outcome, uids) ==
    /\ runPc = "users"
    /\ (outcome = "skip") <=> ~flags["processUsers"]
    /\ runPc' = CASE outcome = "skip" -> "similarities"
                  [] outcome = "fail" -> "exit1"
                  [] outcome = "ok" -> "inUsers"
    /\ usersLeft' = IF outcome = "ok" THEN uids ELSE usersLeft
    /\ UNCHANGED <<clientVars, mapperVars, asmVars, flags, completed, userMapper, userLog,
                   saved, simVars, runFrame>>

(* One iteration of ProcessUsers' loop over the sorted userIds: the user's *)
(* document with its index from userMapper.GetOrCreate(uid).               *)
UserRecord ==
    /\ runPc = "inUsers"
    /\ usersLeft # {}
    /\ LET uid == CHOOSE u \in usersLeft : \A v \in usersLeft : u <= v
           res == MapperGetOrCreate(userMapper, uid)
       IN  /\ userMapper' = res.mapper
           /\ userLog' = Append(userLog, [key |-> uid, idx |-> res.idx, new |-> res.new])
           /\ usersLeft' = usersLeft \ {uid}
    /\ UNCHANGED <<clientVars, mapperVars, asmVars, flags, runPc, completed, saved, simVars,
                   runFrame>>

(* ProcessUsers has returned its count. *)
RunUsersReturn ==
    /\ runPc = "inUsers"
    /\ usersLeft = {}
    /\ runPc' = "similarities"
    /\ completed' = completed \cup {"processUsers"}
    /\ UNCHANGED <<clientVars, mapperVars, asmVars, flags, userMapper, userLog, usersLeft,
                   saved, simVars, runFrame>>

(* if *processSimilarities: LoadSimilarities over a file without rows (or  *)
(* one that cannot be read, which is only a warning), then                 *)
(* ProcessSimilarities, which writes no document or returns an error.      *)
RunSimilarities(outcome) ==
    /\ runPc = "similarities"
    /\ (outcome = "skip") <=> ~flags["processSimilarities"]
    /\ runPc' = IF outcome = "fail" THEN "exit1" ELSE "persist"
    /\ completed' = IF outcome = "ok" THEN completed \cup {"processSimilarities"} ELSE completed
    /\ IF outcome = "skip"
         THEN UNCHANGED simVars
         ELSE /\ reverseMap' \in ReverseMaps
              /\ simLoaded' = TRUE
              /\ simWritten' = (outcome = "ok")
              /\ UNCHANGED <<similarities, simRead, simDocs>>
    /\ UNCHANGED <<clientVars, mapperVars, asmVars, flags, userMapper, userLog, usersLeft,
                   saved, runFrame>>

ItemMapperBuilt == flags["processMovies"] \/ flags["processSimilarities"]

(* The tables a persistence step writes that saves whatever the mappers    *)
(* hold.                                                                   *)
TablesToSave_Always ==
    IF flags["updateMappings"]
      THEN (IF ItemMapperBuilt THEN <<[table |-> "item", mapping |-> mapping]>> ELSE <<>>)
           \o (IF flags["processUsers"]
                 THEN <<[table |-> "user", mapping |-> userMapper.mapping]>> ELSE <<>>)
      ELSE <<>>

(* if *updateMappings: the item table if itemMapper.HasChanged(), then the *)
(* user table if userMapper.HasChanged().                                  *)
TablesToSave ==
    IF flags["updateMappings"]
      THEN (IF ItemMapperBuilt /\ changed
              THEN <<[table |-> "item", mapping |-> mapping]>> ELSE <<>>)
           \o (IF flags["processUsers"] /\ userMapper.changed
                 THEN <<[table |-> "user", mapping |-> userMapper.mapping]>> ELSE <<>>)
      ELSE <<>>

(* The end of main: the tables are saved (a save that fails is a warning   *)
(* and writes nothing), then the report.                                   *)
RunPersist(written) ==
    /\ runPc = "persist"
    /\ runPc' = "report"
    /\ saved' = saved \o SelectSeq(TablesToSave, LAMBDA t : t.table \in written)
    /\ UNCHANGED <<clientVars, mapperVars, asmVars, flags, completed, userMapper, userLog,
                   usersLeft, simVars, runFrame>>

RunNext ==
    \/ \E o \in RunOutcomes : RunMovies(o)
    \/ runPc = "inMovies" /\ \E mid \in CatalogIds : CatalogInOrder(mid) /\ AsmRecord(mid)
    \/ runPc = "inMovies" /\ AsmFinish
    \/ RunMoviesReturn
    \/ \E o \in RunOutcomes : RunRatings(o)
    \/ \E o \in RunOutcomes : \E uids \in SUBSET UserKeys : RunUsers(o, uids)
    \/ UserRecord
    \/ RunUsersReturn
    \/ \E o \in RunOutcomes : RunSimilarities(o)
    \/ \E written \in SUBSET {"item", "user"} : RunPersist(written)

(* -------------------------- specifications ----------------------------- *)
(* The state of every component but one before it has run. *)
SideInitBut(c) ==
    /\ IF c = "conc" THEN TRUE ELSE ConcInit
    /\ IF c = "tags" THEN TRUE ELSE TagsInit
    /\ IF c = "genome" THEN TRUE ELSE GenomeInit(0)
    /\ IF c = "rating" THEN TRUE ELSE RatingInit
    /\ IF c = "sim" THEN TRUE ELSE SimIdle
    /\ IF c = "title" THEN TRUE ELSE TitleIdle
    /\ IF c = "asm" THEN TRUE ELSE AsmIdle
    /\ IF c = "run" THEN TRUE ELSE RunIdle
    /\ IF c = "norm" THEN TRUE ELSE NormIdle
    /\ IF c = "limiter" THEN TRUE ELSE LimiterInit(DefaultRateLimit)

SideInit == SideInitBut("none")

Init == ClientInit /\ NewIDMapper(EmptyTable) /\ SideInit

Next == ClientNext

(* The enrichment client under concurrent callers. *)
Spec == Init /\ [][Next]_vars

SeqNext == SeqClientNext

(* The enrichment client as the pipeline drives it: one caller. *)
SeqSpec == Init /\ [][SeqNext]_vars

MapperInit == ClientInit /\ (\E t \in LoadedTables : NewIDMapper(t)) /\ SideInit

(* The identifier mapper after loading any persisted table. *)
MapperSpec == MapperInit /\ [][MapperNext]_vars

(* Tables the mapper itself has persisted: a loaded key k holds the index  *)
(* k - 1, and the loaded keys are a run of consecutive keys (none, a run   *)
(* from key 1, or a run that leaves the smaller indices unused).           *)
PersistedTables ==
    {[k \in MapKeys |-> IF a <= k /\ k <= b THEN k - 1 ELSE NoIdx] :
        a \in MapKeys, b \in {0} \cup MapKeys}

ConcMapperInit ==
    ClientInit /\ (\E t \in PersistedTables : NewIDMapper(t)) /\ SideInit

(* The identifier mapper shared by concurrent workers. *)
ConcMapperSpec == ConcMapperInit /\ [][ConcMapperNext]_vars

(* LoadUserTags over the rows of tags.csv. *)
UserTagsSpec == Init /\ [][LoadUserTagsNext]_vars

GenomeSpecInit ==
    /\ ClientInit /\ NewIDMapper(EmptyTable) /\ SideInitBut("genome")
    /\ \E threshold \in Relevances : GenomeInit(threshold)

(* LoadGenomeScores over the rows of genome-scores.csv, for each threshold. *)
GenomeSpec == GenomeSpecInit /\ [][LoadGenomeScoresNext]_vars

(* LoadRatingStats over the rows of ratings.csv. *)
RatingSpec == Init /\ [][LoadRatingStatsNext]_vars

SimSpecInit ==
    /\ ClientInit /\ SideInitBut("sim")
    /\ \E t \in {EmptyTable, DenseTable} : NewIDMapper(t)
    /\ SimInit

(* LoadSimilarities and ProcessSimilarities over the rows of the           *)
(* similarity file.                                                        *)
SimSpec == SimSpecInit /\ [][SimilaritiesNext]_vars

TitleSpecInit ==
    /\ ClientInit /\ NewIDMapper(EmptyTable) /\ SideInitBut("title")
    /\ TitleInit

(* parseTitleAndYear applied to each raw title. *)
TitleSpec == TitleSpecInit /\ [][TitleNext]_vars

AsmSpecInit ==
    /\ ClientInit /\ NewIDMapper(EmptyTable) /\ SideInitBut("asm")
    /\ AsmInit

(* ProcessMovies over the rows of movies.csv, calling FetchMovieData.      *)
AsmSpec == AsmSpecInit /\ [][AsmNext]_vars

(* ---------- the movies run: LoadGenomeScores, then ProcessMovies -------- *)
MaxTopGenomeTags == 3

(* genome-scores.csv holds complete rows that parse, all of movie 1; the   *)
(* tag of a row may be unknown to the tag lookup.                          *)
GenomeRowOfRun(r) == r.arity = 3 /\ r.movieId = 1 /\ r.tagId > 0

(* main with enrichment off: the relevance entries are loaded before the   *)
(* assembler reads the catalog.                                            *)
MoviesRunNext ==
    \/ \E r \in GenomeRows : GenomeRowOfRun(r) /\ ReadGenomeRow(r)
    \/ FinishGenomeScores
    \/ genomeDone /\ \E mid \in CatalogIds : CatalogInOrder(mid) /\ AsmRecord(mid)
    \/ genomeDone /\ AsmFinish

MoviesRunInit ==
    /\ ClientInit /\ NewIDMapper(EmptyTable)
    /\ ConcInit /\ TagsInit /\ RatingInit /\ SimIdle /\ TitleIdle /\ RunIdle /\ NormIdle
    /\ LimiterInit(DefaultRateLimit)
    /\ GenomeInit(0)
    /\ fetchExternal = FALSE
    /\ topGenomeTags \in 0..MaxTopGenomeTags
    /\ asmPc = "read"
    /\ asmRead = 0
    /\ asmDoc = NoDoc
    /\ docs = <<>>
    /\ fetchedCount = 0
    /\ errorCount = 0

(* LoadGenomeScores followed by ProcessMovies, for each maximum count.     *)
MoviesRunSpec == MoviesRunInit /\ [][MoviesRunNext]_vars

RunSpecInit ==
    /\ ClientInit /\ SideInitBut("run")
    /\ RunInit
    /\ \E t \in PersistedTables : NewIDMapper(IF ItemMapperBuilt THEN t ELSE EmptyTable)

(* One run of main: the processors in their order, then the persistence of *)
(* the mapping tables.                                                     *)
RunSpec == RunSpecInit /\ [][RunNext]_vars

NormalizeSpecInit ==
    /\ ClientInit /\ NewIDMapper(EmptyTable) /\ SideInitBut("norm")
    /\ NormInit

(* normalizeTag applied to each raw tag. *)
NormalizeSpec == NormalizeSpecInit /\ [][NormalizeNext]_vars

(* Rates the flag tmdb-rate-limit can be given: the smallest, the default, *)
(* and the two around the rate whose interval is one nanosecond.           *)
RateLimits == {1, DefaultRateLimit, Second, Second + 1}

LiveSpecInit ==
    /\ ClientInit /\ NewIDMapper(EmptyTable) /\ SideInitBut("limiter")
    /\ \E rps \in RateLimits : LimiterInit(rps)

(* A caller's next step inside FetchMovieData. *)
Proceed(w) ==
    \/ RLock(w)
    \/ CacheCheck(w)
    \/ Acquire1(w)
    \/ \E o \in PrimaryOutcomes : GetMovie(w, o)
    \/ Lock404(w)
    \/ Store404(w)
    \/ Acquire2(w)
    \/ \E o \in SecondaryOutcomes : GetCredits(w, o)
    \/ LockStore(w)
    \/ Store(w)

(* The ticker keeps ticking; a request is answered or times out; a caller  *)
(* whose next step stays possible takes it. With a bounded number of calls *)
(* this weak fairness is enough: the callers competing for a token or for  *)
(* the lock come to an end.                                                *)
Fairness ==
    /\ WF_vars(Tick)
    /\ \A w \in Workers : WF_vars(Proceed(w))

(* The enrichment client under concurrent callers, for each rate, with the *)
(* limiter, the network and the scheduler doing their part.                *)
LiveSpec == LiveSpecInit /\ [][Next]_vars /\ Fairness

TickingSpecInit ==
    /\ ClientInit /\ NewIDMapper(EmptyTable) /\ SideInitBut("limiter")
    /\ \E rps \in {r \in RateLimits : r <= Second} : LimiterInit(rps)

(* The same for the rates of at most one request per nanosecond.           *)
TickingSpec == TickingSpecInit /\ [][Next]_vars /\ Fairness

(* ------------------------------ claims --------------------------------- *)
Done == 1..Len(log)

(* The calls in progress and the completed ones. *)
Running == {call[w] : w \in {v \in Workers : pc[v] # "idle"}}
AllCalls == Running \cup {log[i] : i \in Done}

PrimaryFailed(c) == c.primary \in {"transport", "status"}

(* C1: two fetches of the same key, sequential or concurrent, make at most *)
(* one round-trip sequence: once a call for a key has returned a record,   *)
(* any call for that key that returns after it has used no token, sent no  *)
(* request, and returns that same cached record.                           *)
C1_OneRoundTripPerKey ==
    \A i, j \in Done :
        (i < j /\ log[i].key = log[j].key /\ ~log[i].err) =>
            /\ log[j].tokens = 0
            /\ log[j].reqs = 0
            /\ ~log[j].err
            /\ log[j].rec = log[i].rec

C3_CachedHitReturnsRecord ==
    [][\A w \in Workers :
          (pc[w] = "CacheCheck" /\ pc'[w] # "CacheCheck"
              /\ cache[call[w].key] # NoRecord) =>
             /\ pc'[w] = "idle"
             /\ Len(log') = Len(log) + 1
             /\ log'[Len(log')].key = call[w].key
             /\ log'[Len(log')].rec = cache[call[w].key]
             /\ ~log'[Len(log')].err
             /\ log'[Len(log')].tokens = 0
             /\ log'[Len(log')].reqs = 0
             /\ rateLimiter' = rateLimiter
             /\ cache' = cache]_vars

C3_Witness ==
    \E i \in Done : log[i].hit /\ log[i].rec # NoRecord /\ log[i].rec = cache[log[i].key]

(* C4: a 404 on the primary request returns, without error, a record with  *)
(* fetched = FALSE that is stored in the cache under the key; the call     *)
(* sends no credits request, and every later fetch of the key returns that *)
(* same object without a token or a request.                               *)
C4_NotFoundCached ==
    \A i \in Done :
        log[i].primary = "notfound" =>
            /\ ~log[i].err
            /\ log[i].rec # NoRecord
            /\ ~log[i].rec.fetched
            /\ log[i].reqs = 1
            /\ log[i].secondary = "none"
            /\ cache[log[i].key] = log[i].rec
            /\ \A j \in Done :
                  (j > i /\ log[j].key = log[i].key) =>
                      /\ log[j].rec = log[i].rec
                      /\ ~log[j].err
                      /\ log[j].reqs = 0
                      /\ log[j].tokens = 0

C4_Witness ==
    \E i, j \in Done :
        /\ log[i].primary = "notfound"
        /\ j > i
        /\ log[j].key = log[i].key
        /\ log[j].hit

(* C5: a primary request that ends in a transport failure or in a status   *)
(* other than 200 and 404 returns an error and no record; no cache entry   *)
(* exists that a successful fetch did not create, the key stays uncached,  *)
(* and the next fetch of the key takes a token and sends a request again.  *)
C5_PrimaryErrorNotCached ==
    /\ \A i \in Done :
          PrimaryFailed(log[i]) =>
              /\ log[i].err
              /\ log[i].rec = NoRecord
              /\ log[i].reqs = 1
              /\ (\A j \in Done : (j > i /\ log[j].key = log[i].key) => log[j].err)
                    => cache[log[i].key] = NoRecord
              /\ \A j \in Done :
                    (/\ j > i
                     /\ log[j].key = log[i].key
                     /\ \A m \in Done : (i < m /\ m < j /\ log[m].key = log[i].key) => log[m].err)
                    => /\ ~log[j].hit
                       /\ log[j].tokens >= 1
                       /\ log[j].reqs >= 1
    /\ \A k \in Keys :
          cache[k] # NoRecord =>
              \E i \in Done : /\ log[i].key = k
                              /\ ~log[i].err
                              /\ ~log[i].hit
                              /\ log[i].rec = cache[k]

C5_Witness ==
    \E i, j \in Done :
        /\ PrimaryFailed(log[i])
        /\ j > i
        /\ log[j].key = log[i].key
        /\ log[j].reqs >= 1
        /\ cache[log[i].key] = NoRecord

(* C6: every request, primary or credits, of any caller is sent after that *)
(* caller took a token of its own from the shared limiter: no call has     *)
(* sent more requests than it has taken tokens, and a caller about to send *)
(* holds one token more than it has sent requests.                         *)
C6_RequestAfterToken ==
    /\ \A c \in AllCalls : c.reqs <= c.tokens
    /\ \A w \in Workers :
          /\ pc[w] = "GetMovie" => (call[w].tokens = 1 /\ call[w].reqs = 0)
          /\ pc[w] = "GetCredits" => (call[w].tokens = 2 /\ call[w].reqs = 1)

C6_Witness ==
    \E w, v \in Workers :
        /\ w # v
        /\ pc[w] = "GetCredits"
        /\ pc[v] = "GetMovie"

C8_CacheEntryNeverReplaced ==
    [][\A k \in Keys : cache[k] # NoRecord => cache'[k] = cache[k]]_vars

(* C9: a call sends at most two requests; the credits request is sent only *)
(* after the primary request of the same call answered 200 with a payload  *)
(* that decoded; a cache hit sends none, and a 404 or a primary error is   *)
(* followed by no credits request.                                         *)
C9_AtMostTwoDependentRequests ==
    /\ \A c \in AllCalls :
          /\ c.reqs <= 2
          /\ c.secondary # "none" => c.primary = "ok"
          /\ c.reqs = 2 => c.primary = "ok"
          /\ c.hit => c.reqs = 0
          /\ c.primary \in {"notfound", "transport", "status", "baddecode"} =>
                (c.reqs = 1 /\ c.secondary = "none")
    /\ \A w \in Workers :
          pc[w] \in {"Acquire2", "GetCredits"} => call[w].primary = "ok"

C9_Witness ==
    /\ \E i \in Done : log[i].reqs = 2 /\ log[i].secondary = "ok"
    /\ \E i \in Done : log[i].primary = "notfound"

(* The index the first new key must get: one more than the largest loaded  *)
(* index, 0 for an empty table.                                            *)
StartIdx ==
    IF \A k \in MapKeys : loaded[k] = NoIdx
      THEN 0
      ELSE 1 + MaxOf({loaded[k] : k \in {x \in MapKeys : loaded[x] # NoIdx}})

NewBefore(i) == Cardinality({j \in 1..(i - 1) : mlog[j].new})

(* C10: GetOrCreate called again with the same key returns the same index, *)
(* and the n-th new key gets the index start + n - 1, where start is one   *)
(* more than the largest loaded index (0 for an empty table): the new      *)
(* indices are distinct, strictly increasing and without gaps.             *)
C10_GetOrCreateDense ==
    /\ \A i, j \in 1..Len(mlog) :
          (i < j /\ mlog[i].key = mlog[j].key) =>
              (mlog[j].idx = mlog[i].idx /\ ~mlog[j].new)
    /\ \A i \in 1..Len(mlog) :
          mlog[i].new => mlog[i].idx = StartIdx + NewBefore(i)
    /\ \A i, j \in 1..Len(mlog) :
          (i < j /\ mlog[i].new /\ mlog[j].new) =>
              (mlog[i].key # mlog[j].key /\ mlog[i].idx < mlog[j].idx)

C10_Witness ==
    /\ Len(mlog) = 3
    /\ mlog[1].new
    /\ mlog[2].key = mlog[1].key
    /\ mlog[3].new
    /\ \E k \in MapKeys : loaded[k] # NoIdx
    /\ \E x \in 0..MaxLoadedIdx : x < StartIdx /\ \A k \in MapKeys : loaded[k] # x

(* Two completed calls overlapped: the later one began before the earlier  *)
(* one returned.                                                           *)
Overlapped(i, j) == i < j /\ mlog[j].start < i

(* C11: under any interleaving of concurrent GetOrCreate callers, calls    *)
(* for different never-seen keys never receive the same index, calls for   *)
(* the same never-seen key return the same index, and only one index is    *)
(* consumed per new key.                                                   *)
C11_ConcurrentGetOrCreate ==
    /\ \A i, j \in 1..Len(mlog) :
          (i # j /\ mlog[i].key # mlog[j].key /\ mlog[i].unseen /\ mlog[j].unseen) =>
              mlog[i].idx # mlog[j].idx
    /\ \A i, j \in 1..Len(mlog) :
          (i < j /\ mlog[i].key = mlog[j].key) =>
              (mlog[i].idx = mlog[j].idx /\ ~mlog[j].new)
    /\ \A i \in 1..Len(mlog) : mlog[i].new <=> (mlog[i].unseen /\ \A j \in 1..(i - 1) : mlog[j].key # mlog[i].key)
    /\ nextIdx = StartIdx + Cardinality({k \in MapKeys : loaded[k] = NoIdx /\ mapping[k] # NoIdx})

C11_Witness ==
    /\ Len(mlog) = 3
    /\ Overlapped(1, 2) /\ mlog[1].key # mlog[2].key /\ mlog[1].new /\ mlog[2].new
    /\ Overlapped(2, 3) /\ mlog[3].key = mlog[2].key /\ mlog[3].unseen /\ ~mlog[3].new

(* C12: after loading a persisted table and any GetOrCreate calls, no      *)
(* index is held by two keys, a loaded or assigned index is never          *)
(* reassigned, and every created index differs from all loaded indices.    *)
C12_TableInjective ==
    /\ \A k1, k2 \in Mapped(mapping) : k1 # k2 => mapping[k1] # mapping[k2]
    /\ \A k \in Mapped(loaded) : mapping[k] = loaded[k]
    /\ \A i \in 1..Len(mlog) : mapping[mlog[i].key] = mlog[i].idx
    /\ \A i \in 1..Len(mlog) :
          mlog[i].new => \A k \in Mapped(loaded) : loaded[k] # mlog[i].idx

(* Tag a is ranked before tag b: more contributors, or as many and a       *)
(* lexicographically smaller tag.                                          *)
RankedBefore(m, a, b) ==
    \/ Frequency(m, a) > Frequency(m, b)
    \/ Frequency(m, a) = Frequency(m, b) /\ StrLess(a, b)

Retained(m) == {userTags[m][i] : i \in 1..Len(userTags[m])}

(* C13: each key keeps at most 10 tags, ordered by contributor count       *)
(* descending and, for equal counts, by the normalized tag ascending; the  *)
(* retained tags are the first 10 of that order.                           *)
C13_TopTenRanked ==
    tagsDone =>
      \A m \in TagMovieIds :
        /\ Len(userTags[m]) <= 10
        /\ Len(userTags[m]) = IF Cardinality(TagsOf(m)) > 10 THEN 10
                               ELSE Cardinality(TagsOf(m))
        /\ Retained(m) \subseteq TagsOf(m)
        /\ \A i, j \in 1..Len(userTags[m]) :
              i < j => RankedBefore(m, userTags[m][i], userTags[m][j])
        /\ \A t \in TagsOf(m) \ Retained(m) :
              \A i \in 1..Len(userTags[m]) : RankedBefore(m, userTags[m][i], t)

C13_Witness ==
    /\ tagsDone
    /\ Cardinality(TagsOf(1)) > 10
    /\ Len(userTags[1]) = 10
    /\ userTags[1][1] = <<"b">>
    /\ userTags[1][2] = <<"c">>
    /\ userTags[1][3] = <<"a">>
    /\ Frequency(1, <<"c">>) = 2
    /\ Frequency(1, <<"b">>) = 2

(* The users that assigned to movie m a raw tag normalizing to t. *)
Contributors(m, t) ==
    {r.userId : r \in {x \in tagRowsKept : x.movieId = m /\ normalizeTag(x.tag) = t}}

KeptTags(m) == {normalizeTag(r.tag) : r \in {x \in tagRowsKept : x.movieId = m}}

(* C14: the count used for ranking a tag of a key is the number of         *)
(* distinct contributors that assigned a raw tag normalizing to it;        *)
(* repeated or differently written assignments by one contributor do not   *)
(* add to it.                                                              *)
C14_DistinctContributors ==
    \A m \in TagMovieIds :
      /\ TagsOf(m) = KeptTags(m)
      /\ \A t \in KeptTags(m) : Frequency(m, t) = Cardinality(Contributors(m, t))

C14_Witness ==
    /\ \E r1, r2, r3 \in tagRowsKept :
          /\ r1.movieId = 1 /\ r2.movieId = 1 /\ r3.movieId = 1
          /\ r1.userId = 1 /\ r2.userId = 1 /\ r3.userId = 2
          /\ r1.tag # r2.tag
          /\ normalizeTag(r1.tag) = <<"c">>
          /\ normalizeTag(r2.tag) = <<"c">>
          /\ normalizeTag(r3.tag) = <<"c">>
    /\ Frequency(1, <<"c">>) = 2

GenomeNames == {GenomeTagsMap[id] : id \in DOMAIN GenomeTagsMap}

(* C15: every retained relevance entry has a score >= the threshold and a  *)
(* label of the tag lookup, and each key's list is sorted by score         *)
(* descending.                                                             *)
C15_RelevanceFiltered ==
    /\ \A m \in GenomeMovieIds : \A i \in 1..Len(scores[m]) :
          scores[m][i].relevance >= minRelevance /\ scores[m][i].tag \in GenomeNames
    /\ genomeDone =>
          \A m \in GenomeMovieIds :
            /\ Len(genomeScores[m]) = Len(scores[m])
            /\ \A i \in 1..Len(genomeScores[m]) :
                  /\ genomeScores[m][i].relevance >= minRelevance
                  /\ genomeScores[m][i].tag \in GenomeNames
            /\ \A i, j \in 1..Len(genomeScores[m]) :
                  i < j => genomeScores[m][i].relevance >= genomeScores[m][j].relevance

C15_Witness ==
    /\ genomeDone
    /\ minRelevance = 1
    /\ genomeRead = 3
    /\ Len(scores[1]) = 2
    /\ scores[1][1].relevance < scores[1][2].relevance
    /\ genomeScores[1][1].relevance > genomeScores[1][2].relevance

(* C16: in the rating scan a row with a numeric field that does not parse  *)
(* (key, rating or timestamp) is skipped: the running sums, counts and     *)
(* last timestamps are those of the well-formed rows alone.                *)
C16_MalformedRowSkipped ==
    \A m \in RatingKeys : accums[m] = ratingValid[m]

(* C17: a key without valid rating rows gets no aggregate; every aggregate *)
(* has count > 0 equal to the number of the key's valid rows, and its      *)
(* average is their sum divided by their count.                            *)
C17_AggregateOverValidRows ==
    ratingDone =>
      \A m \in RatingKeys :
        /\ ratingValid[m].count = 0 => ratingStats[m] = NoStats
        /\ ratingStats[m] # NoStats =>
              /\ ratingStats[m].count > 0
              /\ ratingStats[m].count = ratingValid[m].count
              /\ ratingStats[m].sum * ratingValid[m].count =
                     ratingValid[m].sum * ratingStats[m].count

(* C18: each source index's document carries the first min(20, n) of the   *)
(* n neighbors appended for it, in the order the rows were met, never      *)
(* re-sorted by weight, and its k is the number of neighbors it carries.   *)
C18_FirstTwentyInOrder ==
    simWritten =>
      \A i \in SimIdx :
        LET n == Len(similarities[i])
            doc == simDocs[i]
        IN  /\ (n = 0) <=> (doc = NoSimDoc)
            /\ Len(doc.neighbors) = IF n < 20 THEN n ELSE 20
            /\ \A p \in 1..Len(doc.neighbors) : doc.neighbors[p] = similarities[i][p]
            /\ doc.k = Len(doc.neighbors)
            /\ doc.k <= 20

C18_Witness ==
    /\ simWritten
    /\ Len(similarities[1]) > 20
    /\ simDocs[1].k = 20
    /\ \E p \in 1..19 : simDocs[1].neighbors[p].sim < simDocs[1].neighbors[p + 1].sim
    /\ similarities[1][21].sim > simDocs[1].neighbors[1].sim
    /\ Len(similarities[2]) = 1
    /\ simDocs[2].k = 1

Trimmed == Trim(titleRaw, TitleSpace)

(* The trimmed raw title ends with "(dddd)". *)
EndsWithYearGroup ==
    /\ Len(Trimmed) >= 6
    /\ Trimmed[Len(Trimmed) - 5] = "("
    /\ \A d \in 1..4 : Trimmed[Len(Trimmed) - 5 + d] \in TitleDigits
    /\ Trimmed[Len(Trimmed)] = ")"

GroupYear == Atoi(SubSeq(Trimmed, Len(Trimmed) - 4, Len(Trimmed) - 1))

(* Everything before the last "(" of the trimmed raw title, trimmed. *)
BeforeLastParen ==
    LET last == CHOOSE i \in 1..Len(Trimmed) :
                    Trimmed[i] = "(" /\ \A j \in (i + 1)..Len(Trimmed) : Trimmed[j] # "("
    IN  Trim(SubSeq(Trimmed, 1, last - 1), TitleSpace)

FailedDocs == {i \in 1..Len(docs) : docs[i].fetchErr}

(* C20: when FetchMovieData returns an error for a catalog record, the     *)
(* error counter goes up by exactly one, the record's document is still    *)
(* written, without enrichment, the next record follows, and fetch is      *)
(* never called again for that record.                                     *)
C20_FetchErrorCounted ==
    /\ errorCount = Cardinality(FailedDocs)
    /\ Len(docs) = asmRead - (IF asmPc = "fetching" THEN 1 ELSE 0)
    /\ \A i \in 1..Len(docs) :
          /\ docs[i].fetches <= 1
          /\ docs[i].fetchErr => docs[i].fetches = 1 /\ docs[i].externalData = NoRecord
    /\ ncalls = Cardinality({i \in 1..Len(docs) : docs[i].fetches = 1})
                   + (IF asmPc = "fetching" THEN 1 ELSE 0)
    /\ Cardinality({i \in 1..Len(log) : log[i].err}) = errorCount
                   + (IF asmPc = "fetching" /\ pc[1] = "idle" /\ log[Len(log)].err THEN 1 ELSE 0)

C20_Witness ==
    /\ asmPc = "done"
    /\ Len(docs) = 3
    /\ docs[1].fetchErr
    /\ docs[2].movieId = docs[1].movieId
    /\ docs[2].externalData # NoRecord
    /\ errorCount = 1
    /\ ncalls = 2

(* The descending order of a list in which entries of equal relevance keep *)
(* the order they have in the list.                                         *)
RECURSIVE StableByRelevance(_)
StableByRelevance(list) ==
    IF list = <<>> THEN <<>>
    ELSE LET top == CHOOSE i \in 1..Len(list) :
                       \A j \in 1..Len(list) :
                           \/ list[j].relevance < list[i].relevance
                           \/ (list[j].relevance = list[i].relevance /\ i <= j)
         IN  <<list[top]>> \o
             StableByRelevance([k \in 1..(Len(list) - 1) |->
                                   IF k < top THEN list[k] ELSE list[k + 1]])

(* C21: within one key's relevance list, entries of equal score keep,      *)
(* after the descending sort, the order in which the scan met them.        *)
C21_TiesKeepEncounterOrder ==
    genomeDone =>
      \A m \in GenomeMovieIds : genomeScores[m] = StableByRelevance(scores[m])

(* C22: for every maximum N >= 0, the loader returns each key's list whole *)
(* and sorted, and the assembler cuts it afterwards: a document holds at   *)
(* most N relevance entries, they are the first N of the sorted list, and  *)
(* no omitted entry of the key has a score greater than a retained one.    *)
C22_TruncatedAfterSort ==
    /\ genomeDone =>
          \A m \in GenomeMovieIds : Len(genomeScores[m]) = Len(scores[m])
    /\ \A d \in 1..Len(docs) :
          LET sorted == GenomeTagsOf(docs[d].movieId)
              kept == docs[d].genomeTags
          IN  /\ Len(kept) <= topGenomeTags
              /\ Len(kept) = IF Len(sorted) < topGenomeTags THEN Len(sorted) ELSE topGenomeTags
              /\ \A p \in 1..Len(kept) : kept[p] = sorted[p]
              /\ \A q \in (Len(kept) + 1)..Len(sorted) : \A p \in 1..Len(kept) :
                    sorted[q].relevance <= kept[p].relevance

C22_Witness ==
    /\ topGenomeTags = 2
    /\ Len(scores[1]) = 3
    /\ scores[1][1].relevance < scores[1][3].relevance
    /\ scores[1][2].relevance < scores[1][3].relevance
    /\ \E d \in 1..Len(docs) :
          /\ docs[d].movieId = 1
          /\ Len(docs[d].genomeTags) = 2
          /\ docs[d].genomeTags[1].relevance = scores[1][3].relevance
          /\ docs[d].genomeTags[2].relevance > 0

(* C23: every Neighbor appended to a source index's list comes from a      *)
(* triple with both indices > 0 and carries the target's original key:     *)
(* its (target key, target index) pair is a pair of the mapper's key ->    *)
(* index table.                                                            *)
C23_NeighborCarriesKey ==
    /\ similarities[0] = <<>>
    /\ \A i \in SimIdx : \A p \in 1..Len(similarities[i]) :
          LET n == similarities[i][p]
          IN  /\ n.iIdx > 0
              /\ n.movieId \in Mapped(mapping)
              /\ mapping[n.movieId] = n.iIdx

SimDocsWritten == {simDocs[i] : i \in {x \in SimIdx : simDocs[x] # NoSimDoc}}

(* C24: every neighbor-list document's identifier is {index}_cosine_k{k},  *)
(* with index the document's source index and k the document's own k, the  *)
(* number of neighbors it carries.                                         *)
C24_IdFromOwnK ==
    simWritten =>
      \A doc \in SimDocsWritten :
        /\ doc.k = Len(doc.neighbors)
        /\ doc.id = <<doc.iIdx, "_cosine_k", doc.k>>

(* C24, amended: the identifier is {index}_cosine_k20: its number is the   *)
(* fixed cut of 20 neighbors, whatever the document's own k (the number of *)
(* neighbors it carries, at most 20) is.                                   *)
C24_IdFromFixedK ==
    simWritten =>
      \A doc \in SimDocsWritten :
        /\ doc.k = Len(doc.neighbors)
        /\ doc.k <= 20
        /\ doc.id = <<doc.iIdx, "_cosine_k", 20>>

C24_Witness ==
    /\ simWritten
    /\ simDocs[2].k = 1
    /\ simDocs[2].id = <<2, "_cosine_k", 20>>
    /\ simDocs[1].k = 20
    /\ simDocs[1].id = <<1, "_cosine_k", 20>>

SavedTables(name) == {i \in 1..Len(saved) : saved[i].table = name}

(* C25: a mapping table is written only at the end of the run, after every *)
(* enabled processor has completed, and only if update-mappings is set and *)
(* HasChanged() is true, which is so exactly when a GetOrCreate call gave  *)
(* an index to a never-seen key; a table that gained no key is not         *)
(* rewritten, and a run that exits on a processor's error writes no table. *)
C25_PersistAtEndIfChanged ==
    /\ changed <=> \E i \in 1..Len(mlog) : mlog[i].new
    /\ userMapper.changed <=> \E i \in 1..Len(userLog) : userLog[i].new
    /\ saved # <<>> =>
          /\ runPc = "report"
          /\ flags["updateMappings"]
          /\ completed = EnabledProcessors
    /\ runPc = "exit1" => saved = <<>>
    /\ \A i \in SavedTables("item") :
          /\ changed
          /\ saved[i].mapping = mapping
          /\ Mapped(mapping) # Mapped(loaded)
    /\ \A i \in SavedTables("user") :
          /\ userMapper.changed
          /\ saved[i].mapping = userMapper.mapping
    /\ Mapped(mapping) = Mapped(loaded) => SavedTables("item") = {}
    /\ (\A i \in 1..Len(userLog) : ~userLog[i].new) => SavedTables("user") = {}
    /\ Cardinality(SavedTables("item")) <= 1
    /\ Cardinality(SavedTables("user")) <= 1

(* All processors ran; the item table gained a key and was saved, the user *)
(* table was looked up but gained none and was not.                        *)
C25_Witness ==
    /\ runPc = "report"
    /\ EnabledProcessors = Processors
    /\ flags["updateMappings"]
    /\ Len(saved) = 1
    /\ saved[1].table = "item"
    /\ \E k \in MapKeys : loaded[k] = NoIdx /\ saved[1].mapping[k] # NoIdx
    /\ \E k \in MapKeys : loaded[k] # NoIdx
    /\ userLog # <<>>
    /\ ~userMapper.changed

(* Where a caller waits for the limiter or for TMDB's answer. *)
BlockedPcs == {"Acquire1", "GetMovie", "Acquire2", "GetCredits"}

(* Where a caller holds the write lock: the store into the cache. *)
WritePcs == {"Store404", "Store"}

C27_NormalizeIdempotent ==
    normDone =>
      /\ normalizeTag(normTag) = normTag
      /\ normTag # <<>> => (normTag[1] \notin TagSpace /\ normTag[Len(normTag)] \notin TagSpace)

(* C28: every key passed to GetOrCreate, by the movie assembler or by the  *)
(* user generator, is >= 1, and so is every key of either mapping table: a *)
(* catalog row whose key is missing or does not parse makes no entry.      *)
C28_KeysPositive ==
    /\ \A i \in 1..Len(mlog) : mlog[i].key >= 1
    /\ \A i \in 1..Len(userLog) : userLog[i].key >= 1
    /\ \A k \in Mapped(mapping) : k >= 1
    /\ \A k \in Mapped(userMapper.mapping) : k >= 1

(* The documents written for which FetchMovieData was called, in order:    *)
(* the k-th of them got the result of the k-th call.                       *)
FetchedDocs == SelectSeq(docs, LAMBDA d : d.fetches = 1)

Enriched == {i \in 1..Len(docs) : docs[i].externalData # NoRecord}

(* C29: a document carries an enrichment record only if enrichment is on,  *)
(* the movie's link yields a TMDB id, FetchMovieData returned no error and *)
(* the record has fetched = TRUE; a not-found record (fetched = FALSE) is  *)
(* attached to no document and counts neither as fetched nor as an error.  *)
C29_EnrichmentOnlyIfFetched ==
    /\ \A i \in Enriched :
          /\ fetchExternal
          /\ docs[i].tmdbID # 0
          /\ docs[i].fetches = 1
          /\ ~docs[i].fetchErr
          /\ docs[i].externalData.fetched
    /\ Len(FetchedDocs) <= Len(log)
    /\ \A k \in 1..Len(FetchedDocs) :
          /\ FetchedDocs[k].tmdbID = log[k].key
          /\ FetchedDocs[k].fetchErr = log[k].err
          /\ FetchedDocs[k].externalData =
                IF ~log[k].err /\ log[k].rec.fetched THEN log[k].rec ELSE NoRecord
    /\ fetchedCount = Cardinality(Enriched)
    /\ fetchedCount = Cardinality({k \in 1..Len(FetchedDocs) :
                                      ~log[k].err /\ log[k].rec.fetched})
    /\ errorCount = Cardinality({k \in 1..Len(FetchedDocs) : log[k].err})

(* A movie that TMDB does not know is written without enrichment and       *)
(* counted nowhere; a later row with the same link gets the cached         *)
(* not-found record, which is not attached either.                         *)
C29_Witness ==
    /\ asmPc = "done"
    /\ Len(FetchedDocs) = 2
    /\ log[1].primary = "notfound"
    /\ log[2].hit /\ ~log[2].rec.fetched /\ log[2].rec # NoRecord
    /\ FetchedDocs[1].externalData = NoRecord
    /\ FetchedDocs[2].externalData = NoRecord
    /\ fetchedCount = 0
    /\ errorCount = 0

(* C30: for every positive requests-per-second and under concurrent        *)
(* callers, every FetchMovieData call eventually returns, given that the   *)
(* limiter keeps ticking and every request completes or times out: no      *)
(* caller waits forever for a token or for the cache lock.                 *)
C30_EveryCallReturns ==
    \A w \in Workers : (pc[w] # "idle") ~> (pc[w] = "idle")

====
